---- MODULE Spec2Model ----
(***************************************************************************)
(* Model of the TRB (Transfer Request Block) codec of the xhci crate:      *)
(* src/ring/trb/mod.rs (record framework, Link TRB, Type) and              *)
(* src/ring/trb/event.rs (Event TRBs, Allowed, CompletionCode).            *)
(*                                                                         *)
(* A u32 is modelled by the set of the positions of its 1 bits (a subset   *)
(* of 0..31) and a u64 by a subset of 0..63, so that all 32 (64) bits keep *)
(* their place.  A field that is at most 24 bits wide is also read as a    *)
(* number (ToNat).  A [u32; 4] is a function from the indices 0..3 to u32. *)
(***************************************************************************)
EXTENDS Integers, FiniteSets, Sequences, TLC

VARIABLES raw, res, trb, obs, panicked, crcr

vars == <<raw, res, trb, obs, panicked, crcr>>

(***************************************************************************)
(* Bounds of the model.                                                    *)
(***************************************************************************)
\* how many bits besides the TRB Type field a received record may have set
MaxExtraBits == 2
\* how many bits a pointer handed to Link::set_ring_segment_pointer has set
MaxPtrBits == 2

\* the orders of the validators tried: the declared one with at most this
\* many pairs of try_from! lines exchanged, one pair after another
MaxSwaps == 2

(***************************************************************************)
(* Integers as bit sets.                                                   *)
(***************************************************************************)
Pow2(n) == 2 ^ n

RECURSIVE ToNat(_)
ToNat(bits) ==
    IF bits = {} THEN 0
    ELSE LET b == CHOOSE x \in bits : TRUE
         IN  Pow2(b) + ToNat(bits \ {b})

FromNat(v, width) == {i \in 0..(width - 1) : (v \div Pow2(i)) % 2 = 1}

\* bit_field::BitField::get_bit / set_bit / get_bits / set_bits
get_bit(w, i) == i \in w

set_bit(w, i, b) == IF b THEN w \cup {i} ELSE w \ {i}

get_bits(w, lo, hi) == {b - lo : b \in {x \in w : lo <= x /\ x <= hi}}

set_bits(w, lo, hi, v) == (w \ (lo..hi)) \cup {lo + i : i \in FromNat(v, hi - lo + 1)}

\* u64 shifts and or, as the accessors of the 64-bit fields use them
shl64(x, n) == {b + n : b \in x} \cap (0..63)

shr64(x, n) == {b - n : b \in {y \in x : y >= n}}

or64(x, y) == x \cup y

ZeroRecord == [i \in 0..3 |-> {}]

\* Type with Host Controller Event given the number of Device Notification
Type_duplicate ==
    [Normal |-> 1, SetupStage |-> 2, DataStage |-> 3, StatusStage |-> 4,
     Isoch |-> 5, Link |-> 6, EventData |-> 7, NoopTransfer |-> 8,
     EnableSlot |-> 9, DisableSlot |-> 10, AddressDevice |-> 11,
     ConfigureEndpoint |-> 12, EvaluateContext |-> 13, ResetEndpoint |-> 14,
     StopEndpoint |-> 15, SetTrDequeuePointer |-> 16, ResetDevice |-> 17,
     ForceEvent |-> 18, NegotiateBandwidth |-> 19,
     SetLatencyToleranceValue |-> 20, GetPortBandwidth |-> 21,
     ForceHeader |-> 22, NoopCommand |-> 23, GetExtendedProperty |-> 24,
     SetExtendedProperty |-> 25,
     TransferEvent |-> 32, CommandCompletion |-> 33, PortStatusChange |-> 34,
     BandwidthRequest |-> 35, Doorbell |-> 36, HostController |-> 38,
     DeviceNotification |-> 38, MfindexWrap |-> 39]

(***************************************************************************)
(* ring::trb::Type.                                                        *)
(***************************************************************************)
Type ==
    [Normal |-> 1, SetupStage |-> 2, DataStage |-> 3, StatusStage |-> 4,
     Isoch |-> 5, Link |-> 6, EventData |-> 7, NoopTransfer |-> 8,
     EnableSlot |-> 9, DisableSlot |-> 10, AddressDevice |-> 11,
     ConfigureEndpoint |-> 12, EvaluateContext |-> 13, ResetEndpoint |-> 14,
     StopEndpoint |-> 15, SetTrDequeuePointer |-> 16, ResetDevice |-> 17,
     ForceEvent |-> 18, NegotiateBandwidth |-> 19,
     SetLatencyToleranceValue |-> 20, GetPortBandwidth |-> 21,
     ForceHeader |-> 22, NoopCommand |-> 23, GetExtendedProperty |-> 24,
     SetExtendedProperty |-> 25,
     TransferEvent |-> 32, CommandCompletion |-> 33, PortStatusChange |-> 34,
     BandwidthRequest |-> 35, Doorbell |-> 36, HostController |-> 37,
     DeviceNotification |-> 38, MfindexWrap |-> 39]

\* the variants of event::Allowed, in the order of the enum
EventOrder ==
    <<"TransferEvent", "CommandCompletion", "PortStatusChange", "BandwidthRequest",
      "Doorbell", "HostController", "DeviceNotification", "MfindexWrap">>

EventVariants == {EventOrder[i] : i \in 1..Len(EventOrder)}

\* every type built with add_trb_with_default! in the two files
Variants == EventVariants \cup {"Link"}

\* the table with [3]0..=9 for [3]1..=9 in Command Completion Event
ReservedRanges_cycle ==
    [PortStatusChange   |-> << <<0, 0, 23>>, <<1, 0, 31>>, <<2, 0, 23>>, <<3, 1, 9>>, <<3, 16, 31>> >>,
     TransferEvent      |-> << <<3, 1, 1>>, <<3, 3, 9>>, <<3, 21, 23>> >>,
     CommandCompletion  |-> << <<0, 0, 3>>, <<3, 0, 9>> >>,
     BandwidthRequest   |-> << <<0, 0, 31>>, <<1, 0, 31>>, <<2, 0, 23>>, <<3, 1, 9>>, <<3, 16, 23>> >>,
     Doorbell           |-> << <<0, 5, 31>>, <<1, 0, 31>>, <<2, 0, 23>>, <<3, 1, 9>> >>,
     HostController     |-> << <<0, 0, 31>>, <<1, 0, 31>>, <<2, 0, 23>>, <<3, 1, 9>>, <<3, 16, 31>> >>,
     DeviceNotification |-> << <<0, 0, 31>>, <<1, 0, 31>>, <<2, 0, 23>>, <<3, 1, 9>>, <<3, 16, 31>> >>,
     MfindexWrap        |-> << <<0, 0, 3>>, <<2, 0, 23>>, <<3, 1, 9>>, <<3, 16, 23>> >>]

\* the table with the notification type, the notification data and the slot
\* id of a Device Notification left out of its reserved ranges
ReservedRanges_notification ==
    [PortStatusChange   |-> << <<0, 0, 23>>, <<1, 0, 31>>, <<2, 0, 23>>, <<3, 1, 9>>, <<3, 16, 31>> >>,
     TransferEvent      |-> << <<3, 1, 1>>, <<3, 3, 9>>, <<3, 21, 23>> >>,
     CommandCompletion  |-> << <<0, 0, 3>>, <<3, 1, 9>> >>,
     BandwidthRequest   |-> << <<0, 0, 31>>, <<1, 0, 31>>, <<2, 0, 23>>, <<3, 1, 9>>, <<3, 16, 23>> >>,
     Doorbell           |-> << <<0, 5, 31>>, <<1, 0, 31>>, <<2, 0, 23>>, <<3, 1, 9>> >>,
     HostController     |-> << <<0, 0, 31>>, <<1, 0, 31>>, <<2, 0, 23>>, <<3, 1, 9>>, <<3, 16, 31>> >>,
     DeviceNotification |-> << <<0, 0, 3>>, <<2, 0, 23>>, <<3, 1, 9>>, <<3, 16, 23>> >>,
     MfindexWrap        |-> << <<0, 0, 3>>, <<2, 0, 23>>, <<3, 1, 9>>, <<3, 16, 23>> >>]

\* the table with 0..3 in place of 0..=3 for word 0 of a Command Completion
ReservedRanges_pointer ==
    [PortStatusChange   |-> << <<0, 0, 23>>, <<1, 0, 31>>, <<2, 0, 23>>, <<3, 1, 9>>, <<3, 16, 31>> >>,
     TransferEvent      |-> << <<3, 1, 1>>, <<3, 3, 9>>, <<3, 21, 23>> >>,
     CommandCompletion  |-> << <<0, 0, 2>>, <<3, 1, 9>> >>,
     BandwidthRequest   |-> << <<0, 0, 31>>, <<1, 0, 31>>, <<2, 0, 23>>, <<3, 1, 9>>, <<3, 16, 23>> >>,
     Doorbell           |-> << <<0, 5, 31>>, <<1, 0, 31>>, <<2, 0, 23>>, <<3, 1, 9>> >>,
     HostController     |-> << <<0, 0, 31>>, <<1, 0, 31>>, <<2, 0, 23>>, <<3, 1, 9>>, <<3, 16, 31>> >>,
     DeviceNotification |-> << <<0, 0, 31>>, <<1, 0, 31>>, <<2, 0, 23>>, <<3, 1, 9>>, <<3, 16, 31>> >>,
     MfindexWrap        |-> << <<0, 0, 3>>, <<2, 0, 23>>, <<3, 1, 9>>, <<3, 16, 23>> >>]

(***************************************************************************)
(* reserved!: the ranges each event TRB declares reserved, as              *)
(* <<index, first bit, last bit>>, in the order of the declaration.        *)
(***************************************************************************)
ReservedRanges ==
    [PortStatusChange   |-> << <<0, 0, 23>>, <<1, 0, 31>>, <<2, 0, 23>>, <<3, 1, 9>>, <<3, 16, 31>> >>,
     TransferEvent      |-> << <<3, 1, 1>>, <<3, 3, 9>>, <<3, 21, 23>> >>,
     CommandCompletion  |-> << <<0, 0, 3>>, <<3, 1, 9>> >>,
     BandwidthRequest   |-> << <<0, 0, 31>>, <<1, 0, 31>>, <<2, 0, 23>>, <<3, 1, 9>>, <<3, 16, 23>> >>,
     Doorbell           |-> << <<0, 5, 31>>, <<1, 0, 31>>, <<2, 0, 23>>, <<3, 1, 9>> >>,
     HostController     |-> << <<0, 0, 31>>, <<1, 0, 31>>, <<2, 0, 23>>, <<3, 1, 9>>, <<3, 16, 31>> >>,
     DeviceNotification |-> << <<0, 0, 31>>, <<1, 0, 31>>, <<2, 0, 23>>, <<3, 1, 9>>, <<3, 16, 31>> >>,
     MfindexWrap        |-> << <<0, 0, 3>>, <<2, 0, 23>>, <<3, 1, 9>>, <<3, 16, 23>> >>]

(***************************************************************************)
(* Values.  A TRB of type $name is the newtype $name([u32; 4]): the name   *)
(* of its type and its words.  The enum event::Allowed adds nothing to an  *)
(* event TRB but the name of the variant, so Allowed::$name(v) is the same *)
(* pair; the methods of Allowed are those named Allowed_.                  *)
(***************************************************************************)
Trb(name, words) == [variant |-> name, words |-> words]

NoTrb == [variant |-> "None", words |-> ZeroRecord]

\* Result<_, [u32; 4]>: Ok carries the value's type and words, Err the words
Ok(name, words) == [kind |-> "Ok", variant |-> name, words |-> words]

Err(words) == [kind |-> "Err", variant |-> "None", words |-> words]

\* try_from with the TRB Type read from the half-open range 10..15
try_from_type_range(name, r) ==
    LET ranges == ReservedRanges[name]
    IN  IF \E k \in 1..Len(ranges) :
               get_bits(r[ranges[k][1]], ranges[k][2], ranges[k][3]) # {}
        THEN Err(r)
        ELSE IF ToNat(get_bits(r[3], 10, 14)) # Type[name]
        THEN Err(r)
        ELSE Ok(name, r)

\* try_from that does not test the last reserved range of the declaration
try_from_skips_last(name, r) ==
    LET ranges == ReservedRanges[name]
    IN  IF \E k \in 1..(Len(ranges) - 1) :
               get_bits(r[ranges[k][1]], ranges[k][2], ranges[k][3]) # {}
        THEN Err(r)
        ELSE IF ToNat(get_bits(r[3], 10, 15)) # Type[name]
        THEN Err(r)
        ELSE Ok(name, r)

\* reserved!: impl TryFrom<[u32; 4]> for $name
try_from(name, r) ==
    LET ranges == ReservedRanges[name]
    IN  IF \E k \in 1..Len(ranges) :
               get_bits(r[ranges[k][1]], ranges[k][2], ranges[k][3]) # {}
        THEN Err(r)
        ELSE IF ToNat(get_bits(r[3], 10, 15)) # Type[name]
        THEN Err(r)
        ELSE Ok(name, r)

\* impl TryFrom<[u32; 4]> for Allowed: the validators in the order of the
\* try_from! lines, the first success returns
RECURSIVE try_from_in_order(_, _, _)
try_from_in_order(order, k, r) ==
    IF k > Len(order) THEN Err(r)
    ELSE LET t == try_from(order[k], r)
         IN  IF t.kind = "Ok" THEN Ok(order[k], t.words)
             ELSE try_from_in_order(order, k + 1, r)

Allowed_try_from(r) == try_from_in_order(EventOrder, 1, r)

(***************************************************************************)
(* add_trb!: the methods every TRB type has.                               *)
(***************************************************************************)
\* into_raw that returns the words without the cycle bit
into_raw_masked(t) == [t.words EXCEPT ![3] = @ \ {0}]

into_raw(t) == t.words

\* impl AsRef<[u32]> for $name: the slice of the four words
as_ref(t) == t.words

\* impl From<$name> for [u32; 4]
from(t) == t.words

cycle_bit(t) == get_bit(t.words[3], 0)

\* set_cycle_bit writing bit 1 of word 3
set_cycle_bit_bit1(t, b) == [t EXCEPT !.words[3] = set_bit(@, 1, b)]

set_cycle_bit(t, b) == [t EXCEPT !.words[3] = set_bit(@, 0, b)]

set_trb_type(t) == [t EXCEPT !.words[3] = set_bits(@, 10, 15, Type[t.variant])]

\* new() without set_trb_type()
new_untyped(name) == Trb(name, ZeroRecord)

\* impl_default_simply_adds_trb_id!: new() and default()
new(name) == set_trb_type(Trb(name, ZeroRecord))

default(name) == new(name)

(***************************************************************************)
(* allowed!: the methods of the enum Allowed, each a match on the variant. *)
(***************************************************************************)
\* each arm of the match calls the method of the variant held
Allowed_set_cycle_bit(a, b) ==
    CASE a.variant = "TransferEvent" -> set_cycle_bit(a, b)
      [] a.variant = "CommandCompletion" -> set_cycle_bit(a, b)
      [] a.variant = "PortStatusChange" -> set_cycle_bit(a, b)
      [] a.variant = "BandwidthRequest" -> set_cycle_bit(a, b)
      [] a.variant = "Doorbell" -> set_cycle_bit(a, b)
      [] a.variant = "HostController" -> set_cycle_bit(a, b)
      [] a.variant = "DeviceNotification" -> set_cycle_bit(a, b)
      [] a.variant = "MfindexWrap" -> set_cycle_bit(a, b)

Allowed_cycle_bit(a) ==
    CASE a.variant = "TransferEvent" -> cycle_bit(a)
      [] a.variant = "CommandCompletion" -> cycle_bit(a)
      [] a.variant = "PortStatusChange" -> cycle_bit(a)
      [] a.variant = "BandwidthRequest" -> cycle_bit(a)
      [] a.variant = "Doorbell" -> cycle_bit(a)
      [] a.variant = "HostController" -> cycle_bit(a)
      [] a.variant = "DeviceNotification" -> cycle_bit(a)
      [] a.variant = "MfindexWrap" -> cycle_bit(a)

Allowed_into_raw(a) ==
    CASE a.variant = "TransferEvent" -> into_raw(a)
      [] a.variant = "CommandCompletion" -> into_raw(a)
      [] a.variant = "PortStatusChange" -> into_raw(a)
      [] a.variant = "BandwidthRequest" -> into_raw(a)
      [] a.variant = "Doorbell" -> into_raw(a)
      [] a.variant = "HostController" -> into_raw(a)
      [] a.variant = "DeviceNotification" -> into_raw(a)
      [] a.variant = "MfindexWrap" -> into_raw(a)

Allowed_as_ref(a) ==
    CASE a.variant = "TransferEvent" -> as_ref(a)
      [] a.variant = "CommandCompletion" -> as_ref(a)
      [] a.variant = "PortStatusChange" -> as_ref(a)
      [] a.variant = "BandwidthRequest" -> as_ref(a)
      [] a.variant = "Doorbell" -> as_ref(a)
      [] a.variant = "HostController" -> as_ref(a)
      [] a.variant = "DeviceNotification" -> as_ref(a)
      [] a.variant = "MfindexWrap" -> as_ref(a)

(***************************************************************************)
(* event::CompletionCode and completion_code!.                             *)
(***************************************************************************)
CompletionCode ==
    [Invalid |-> 0, Success |-> 1, DataBufferError |-> 2,
     BabbleDetectedError |-> 3, UsbTransactionError |-> 4, TrbError |-> 5,
     StallError |-> 6, ResourceError |-> 7, BandwidthError |-> 8,
     NoSlotsAvailableError |-> 9, InvalidStreamTypeError |-> 10,
     SlotNotEnabledError |-> 11, EndpointNotEnabledError |-> 12,
     ShortPacket |-> 13, RingUnderrun |-> 14, RingOverrun |-> 15,
     VfEventRingFullError |-> 16, ParameterError |-> 17,
     BandwidthOverrunError |-> 18, ContextStateError |-> 19,
     NoPingResponseError |-> 20, EventRingFullError |-> 21,
     IncompatibleDeviceError |-> 22, MissedServiceError |-> 23,
     CommandRingStopped |-> 24, CommandAborted |-> 25, Stopped |-> 26,
     StoppedLengthInvalid |-> 27, StoppedShortPacket |-> 28,
     MaxExitLatencyTooLargeError |-> 29, IsochBufferOverrun |-> 31,
     EventLostError |-> 32, UndefinedError |-> 33,
     InvalidStreamIdError |-> 34, SecondaryBandwidthError |-> 35,
     SplitTransactionError |-> 36]

\* #[derive(FromPrimitive)]: the code whose discriminant is c, if any
from_u8(c) ==
    LET names == {n \in DOMAIN CompletionCode : CompletionCode[n] = c}
    IN  IF names = {} THEN "None" ELSE CHOOSE n \in names : TRUE

\* completion_code with unwrap_or(Invalid) in place of ok_or(c)
completion_code_default(t) ==
    LET c == ToNat(get_bits(t.words[2], 24, 31))
        n == from_u8(c)
    IN  IF n = "None" THEN [kind |-> "Ok", code |-> "Invalid"]
        ELSE [kind |-> "Ok", code |-> n]

\* Result<CompletionCode, u8>
completion_code(t) ==
    LET c == ToNat(get_bits(t.words[2], 24, 31))
        n == from_u8(c)
    IN  IF n = "None" THEN [kind |-> "Err", byte |-> c]
        ELSE [kind |-> "Ok", code |-> n]

(***************************************************************************)
(* The field accessors of the event TRBs.  The 64-bit ones return a u64    *)
(* (bit set), the others a number or a boolean.                            *)
(***************************************************************************)
PortStatusChange_port_id(t) == ToNat(get_bits(t.words[0], 24, 31))

\* trb_pointer with the two words exchanged
TransferEvent_trb_pointer_swapped(t) ==
    LET l == t.words[0]
        u == t.words[1]
    IN  or64(shl64(l, 32), u)

TransferEvent_trb_pointer(t) ==
    LET l == t.words[0]
        u == t.words[1]
    IN  or64(shl64(u, 32), l)

TransferEvent_trb_transfer_length(t) == ToNat(get_bits(t.words[2], 0, 23))

TransferEvent_event_data(t) == get_bit(t.words[3], 2)

TransferEvent_endpoint_id(t) == ToNat(get_bits(t.words[3], 16, 20))

TransferEvent_slot_id(t) == ToNat(get_bits(t.words[3], 24, 31))

CommandCompletion_command_trb_pointer(t) ==
    LET l == t.words[0]
        u == t.words[1]
    IN  or64(shl64(u, 32), l)

CommandCompletion_command_completion_parameter(t) == ToNat(get_bits(t.words[2], 0, 23))

CommandCompletion_vf_id(t) == ToNat(get_bits(t.words[3], 16, 23))

CommandCompletion_slot_id(t) == ToNat(get_bits(t.words[3], 24, 31))

BandwidthRequest_slot_id(t) == ToNat(get_bits(t.words[3], 24, 31))

Doorbell_db_reason(t) == ToNat(get_bits(t.words[0], 0, 4))

DeviceNotification_notification_type(t) == ToNat(get_bits(t.words[0], 4, 7))

DeviceNotification_device_notification_data(t) ==
    LET l == get_bits(t.words[0], 8, 31)
        u == t.words[1]
    IN  shr64(or64(shl64(u, 32), l), 8)

DeviceNotification_slot_id(t) == ToNat(get_bits(t.words[3], 24, 31))

(***************************************************************************)
(* Link TRB.                                                               *)
(***************************************************************************)
\* the assertion on p % 8
Link_set_ring_segment_pointer_panics_mod8(p) == ToNat({b \in p : b < 3}) # 0

\* assert_eq!(p % 16, 0, ..) fails
Link_set_ring_segment_pointer_panics(p) == ToNat({b \in p : b < 4}) # 0

Link_set_ring_segment_pointer(t, p) ==
    LET l == get_bits(p, 0, 31)
        u == get_bits(p, 32, 63)
    IN  [t EXCEPT !.words[0] = l, !.words[1] = u]

Link_ring_segment_pointer(t) ==
    LET l == t.words[0]
        u == t.words[1]
    IN  or64(shl64(u, 32), l)

\* set_interrupter_target that writes the range 21..=31 of word 2
Link_set_interrupter_target_from21(t, v) ==
    [t EXCEPT !.words[2] = set_bits(@, 21, 31, v)]

Link_set_interrupter_target(t, v) == [t EXCEPT !.words[2] = set_bits(@, 22, 31, v)]

Link_interrupter_target(t) == ToNat(get_bits(t.words[2], 22, 31))

Link_set_toggle_cycle(t, c) == [t EXCEPT !.words[3] = set_bit(@, 1, c)]

Link_toggle_cycle(t) == get_bit(t.words[3], 1)

\* set_chain_bit that writes bit 14 of word 3, inside the TRB Type field
Link_set_chain_bit_bit14(t, b) == [t EXCEPT !.words[3] = set_bit(@, 14, b)]

Link_set_chain_bit(t, b) == [t EXCEPT !.words[3] = set_bit(@, 4, b)]

Link_chain_bit(t) == get_bit(t.words[3], 4)

Link_set_interrupt_on_completion(t, ioc) == [t EXCEPT !.words[3] = set_bit(@, 5, ioc)]

Link_interrupt_on_completion(t) == get_bit(t.words[3], 5)

(***************************************************************************)
(* impl_debug_for_trb! / impl_debug_for_event_trb!: every accessor of the  *)
(* type is read, and cycle_bit last.                                       *)
(***************************************************************************)
Fields(t) ==
    CASE t.variant = "PortStatusChange" ->
           [completion_code |-> completion_code(t),
            port_id |-> PortStatusChange_port_id(t),
            cycle_bit |-> cycle_bit(t)]
      [] t.variant = "TransferEvent" ->
           [completion_code |-> completion_code(t),
            trb_pointer |-> TransferEvent_trb_pointer(t),
            trb_transfer_length |-> TransferEvent_trb_transfer_length(t),
            event_data |-> TransferEvent_event_data(t),
            endpoint_id |-> TransferEvent_endpoint_id(t),
            slot_id |-> TransferEvent_slot_id(t),
            cycle_bit |-> cycle_bit(t)]
      [] t.variant = "CommandCompletion" ->
           [completion_code |-> completion_code(t),
            command_trb_pointer |-> CommandCompletion_command_trb_pointer(t),
            command_completion_parameter |-> CommandCompletion_command_completion_parameter(t),
            vf_id |-> CommandCompletion_vf_id(t),
            slot_id |-> CommandCompletion_slot_id(t),
            cycle_bit |-> cycle_bit(t)]
      [] t.variant = "BandwidthRequest" ->
           [completion_code |-> completion_code(t),
            slot_id |-> BandwidthRequest_slot_id(t),
            cycle_bit |-> cycle_bit(t)]
      [] t.variant = "Doorbell" ->
           [completion_code |-> completion_code(t),
            db_reason |-> Doorbell_db_reason(t),
            cycle_bit |-> cycle_bit(t)]
      [] t.variant = "HostController" ->
           [completion_code |-> completion_code(t),
            cycle_bit |-> cycle_bit(t)]
      [] t.variant = "DeviceNotification" ->
           [completion_code |-> completion_code(t),
            notification_type |-> DeviceNotification_notification_type(t),
            device_notification_data |-> DeviceNotification_device_notification_data(t),
            slot_id |-> DeviceNotification_slot_id(t),
            cycle_bit |-> cycle_bit(t)]
      [] t.variant = "MfindexWrap" ->
           [completion_code |-> completion_code(t),
            cycle_bit |-> cycle_bit(t)]
      [] t.variant = "Link" ->
           [ring_segment_pointer |-> Link_ring_segment_pointer(t),
            interrupter_target |-> Link_interrupter_target(t),
            toggle_cycle |-> Link_toggle_cycle(t),
            chain_bit |-> Link_chain_bit(t),
            interrupt_on_completion |-> Link_interrupt_on_completion(t),
            cycle_bit |-> cycle_bit(t)]

(***************************************************************************)
(* The inputs.  A received record has a value in its TRB Type field and a  *)
(* few more bits set, taken among the first and last bits of every range   *)
(* the two files name (reserved ranges and fields): any of the 64 values   *)
(* with at most one more bit, and the values of TypeSamples (the event     *)
(* types, Link and zero) with at most MaxExtraBits more bits.  To these is *)
(* added the Transfer Event of pointer 0x1000, length 64, endpoint 3, slot *)
(* 1 and completion code 1.  CompletionRecords are the event TRBs with     *)
(* every completion code byte; they are the inputs of SpecCompletion.      *)
(***************************************************************************)
TypeFieldValues == 0..63

TypeSamples == {0, 6} \cup (32..39)

BytesValues == 0..255

BitSamples ==
    {<<0, b>> : b \in {0, 3, 4, 5, 8, 23, 24, 31}} \cup
    {<<1, b>> : b \in {0, 31}} \cup
    {<<2, b>> : b \in {0, 23, 24}} \cup
    {<<3, b>> : b \in {0, 1, 2, 3, 9, 16, 20, 21, 23, 24, 31}}

RECURSIVE BitSets(_, _)
BitSets(samples, n) ==
    IF n = 0 THEN {{}}
    ELSE LET smaller == BitSets(samples, n - 1)
         IN  smaller \cup {S \cup {p} : S \in smaller, p \in samples}

MkRaw(ty, bits) ==
    [i \in 0..3 |->
        {p[2] : p \in {q \in bits : q[1] = i}} \cup
        (IF i = 3 THEN {10 + j : j \in FromNat(ty, 6)} ELSE {})]

SampledRecords ==
    {MkRaw(ty, S) : ty \in TypeFieldValues, S \in BitSets(BitSamples, 1)} \cup
    {MkRaw(ty, S) : ty \in TypeSamples, S \in BitSets(BitSamples, MaxExtraBits)}

CompletionRecords ==
    {MkRaw(Type[v], {<<2, 24 + j>> : j \in FromNat(b, 8)}) :
        v \in EventVariants, b \in BytesValues}

ScenarioRecord ==
    MkRaw(Type["TransferEvent"],
          {<<0, 12>>, <<2, 6>>, <<2, 24>>, <<3, 16>>, <<3, 17>>, <<3, 24>>})

RawRecords == SampledRecords \cup {ScenarioRecord}

\* the pointers handed to Link::set_ring_segment_pointer
PtrBitSamples == {0, 3, 4, 31, 32, 63}

Pointers == BitSets(PtrBitSamples, MaxPtrBits)

\* the values handed to Link::set_interrupter_target
InterrupterTargets == {0, 1, 1023}

(***************************************************************************)
(* The state.  The model follows one record: `raw` is the [u32; 4] under   *)
(* conversion (if any), `res` the result of the last try_from on it, `trb` *)
(* the typed value held, `obs` what the last read of its fields returned.  *)
(* A value derived from another one is dropped when its origin changes.    *)
(* `panicked` tells that an assertion failed, which ends the program, and  *)
(* `crcr` is the u64 of a CommandRingControlRegister.                      *)
(***************************************************************************)
Some(words) == [some |-> TRUE, words |-> words]

None == [some |-> FALSE, words |-> ZeroRecord]

NoRes == [by |-> "None", kind |-> "None", variant |-> "None", words |-> ZeroRecord]

NoObs == [of |-> NoTrb, fields |-> <<>>]

Result(by, t) == [by |-> by, kind |-> t.kind, variant |-> t.variant, words |-> t.words]

Init ==
    /\ raw \in {None} \cup {Some(r) : r \in RawRecords}
    /\ res = NoRes
    /\ trb = NoTrb
    /\ obs = NoObs
    /\ panicked = FALSE
    /\ crcr = {}

\* Allowed::try_from(raw)
Classify ==
    /\ ~panicked
    /\ raw.some
    /\ res' = Result("Allowed", Allowed_try_from(raw.words))
    /\ obs' = NoObs
    /\ UNCHANGED <<raw, trb, panicked, crcr>>

\* $name::try_from(raw)
TryFrom(name) ==
    /\ ~panicked
    /\ raw.some
    /\ res' = Result(name, try_from(name, raw.words))
    /\ obs' = NoObs
    /\ UNCHANGED <<raw, trb, panicked, crcr>>

\* if let Ok(t) = ..: the value an Ok result carries
Unwrap ==
    /\ ~panicked
    /\ res.kind = "Ok"
    /\ trb' = Trb(res.variant, res.words)
    /\ obs' = NoObs
    /\ UNCHANGED <<raw, res, panicked, crcr>>

\* $name::new()
New(name) ==
    /\ ~panicked
    /\ trb' = new(name)
    /\ raw' = None
    /\ res' = NoRes
    /\ obs' = NoObs
    /\ UNCHANGED <<panicked, crcr>>

\* $name::default()
Default(name) ==
    /\ ~panicked
    /\ trb' = default(name)
    /\ raw' = None
    /\ res' = NoRes
    /\ obs' = NoObs
    /\ UNCHANGED <<panicked, crcr>>

\* $name::set_cycle_bit(b)
SetCycleBit(b) ==
    /\ ~panicked
    /\ trb.variant # "None"
    /\ trb' = set_cycle_bit(trb, b)
    /\ raw' = None
    /\ res' = NoRes
    /\ obs' = NoObs
    /\ UNCHANGED <<panicked, crcr>>

\* Allowed::set_cycle_bit(b)
AllowedSetCycleBit(b) ==
    /\ ~panicked
    /\ trb.variant \in EventVariants
    /\ trb' = Allowed_set_cycle_bit(trb, b)
    /\ raw' = None
    /\ res' = NoRes
    /\ obs' = NoObs
    /\ UNCHANGED <<panicked, crcr>>

\* $name::into_raw()
IntoRaw ==
    /\ ~panicked
    /\ trb.variant # "None"
    /\ raw' = Some(into_raw(trb))
    /\ res' = NoRes
    /\ obs' = NoObs
    /\ UNCHANGED <<trb, panicked, crcr>>

\* Allowed::into_raw()
AllowedIntoRaw ==
    /\ ~panicked
    /\ trb.variant \in EventVariants
    /\ raw' = Some(Allowed_into_raw(trb))
    /\ res' = NoRes
    /\ obs' = NoObs
    /\ UNCHANGED <<trb, panicked, crcr>>

\* <[u32; 4]>::from(v)
FromTrb ==
    /\ ~panicked
    /\ trb.variant # "None"
    /\ raw' = Some(from(trb))
    /\ res' = NoRes
    /\ obs' = NoObs
    /\ UNCHANGED <<trb, panicked, crcr>>

\* v.as_ref(): the words the slice shows
AsRef ==
    /\ ~panicked
    /\ trb.variant # "None"
    /\ raw' = Some(as_ref(trb))
    /\ res' = NoRes
    /\ obs' = NoObs
    /\ UNCHANGED <<trb, panicked, crcr>>

\* Allowed::as_ref()
AllowedAsRef ==
    /\ ~panicked
    /\ trb.variant \in EventVariants
    /\ raw' = Some(Allowed_as_ref(trb))
    /\ res' = NoRes
    /\ obs' = NoObs
    /\ UNCHANGED <<trb, panicked, crcr>>

\* the accessors of the value held, read as Debug::fmt reads them
ReadFields ==
    /\ ~panicked
    /\ trb.variant # "None"
    /\ obs' = [of |-> trb, fields |-> Fields(trb)]
    /\ UNCHANGED <<raw, res, trb, panicked, crcr>>

\* Link::set_ring_segment_pointer(p)
SetRingSegmentPointer(p) ==
    /\ ~panicked
    /\ trb.variant = "Link"
    /\ IF Link_set_ring_segment_pointer_panics(p)
       THEN /\ panicked' = TRUE
            /\ UNCHANGED <<raw, res, trb, obs, crcr>>
       ELSE /\ trb' = Link_set_ring_segment_pointer(trb, p)
            /\ raw' = None
            /\ res' = NoRes
            /\ obs' = NoObs
            /\ UNCHANGED <<panicked, crcr>>

\* Link::set_interrupter_target(t)
SetInterrupterTarget(v) ==
    /\ ~panicked
    /\ trb.variant = "Link"
    /\ trb' = Link_set_interrupter_target(trb, v)
    /\ raw' = None
    /\ res' = NoRes
    /\ obs' = NoObs
    /\ UNCHANGED <<panicked, crcr>>

\* Link::set_toggle_cycle(c)
SetToggleCycle(c) ==
    /\ ~panicked
    /\ trb.variant = "Link"
    /\ trb' = Link_set_toggle_cycle(trb, c)
    /\ raw' = None
    /\ res' = NoRes
    /\ obs' = NoObs
    /\ UNCHANGED <<panicked, crcr>>

\* Link::set_chain_bit(b)
SetChainBit(b) ==
    /\ ~panicked
    /\ trb.variant = "Link"
    /\ trb' = Link_set_chain_bit(trb, b)
    /\ raw' = None
    /\ res' = NoRes
    /\ obs' = NoObs
    /\ UNCHANGED <<panicked, crcr>>

\* Link::set_interrupt_on_completion(ioc)
SetInterruptOnCompletion(ioc) ==
    /\ ~panicked
    /\ trb.variant = "Link"
    /\ trb' = Link_set_interrupt_on_completion(trb, ioc)
    /\ raw' = None
    /\ res' = NoRes
    /\ obs' = NoObs
    /\ UNCHANGED <<panicked, crcr>>

Next ==
    \/ Classify
    \/ \E name \in EventVariants : TryFrom(name)
    \/ Unwrap
    \/ \E name \in Variants : New(name)
    \/ \E name \in Variants : Default(name)
    \/ \E b \in BOOLEAN : SetCycleBit(b)
    \/ \E b \in BOOLEAN : AllowedSetCycleBit(b)
    \/ IntoRaw
    \/ AllowedIntoRaw
    \/ FromTrb
    \/ AsRef
    \/ AllowedAsRef
    \/ ReadFields
    \/ \E p \in Pointers : SetRingSegmentPointer(p)
    \/ \E v \in InterrupterTargets : SetInterrupterTarget(v)
    \/ \E c \in BOOLEAN : SetToggleCycle(c)
    \/ \E b \in BOOLEAN : SetChainBit(b)
    \/ \E ioc \in BOOLEAN : SetInterruptOnCompletion(ioc)

Spec == Init /\ [][Next]_vars

\* the decoding of the completion code: every byte in every event TRB
InitCompletion ==
    /\ raw \in {Some(r) : r \in CompletionRecords}
    /\ res = NoRes
    /\ trb = NoTrb
    /\ obs = NoObs
    /\ panicked = FALSE
    /\ crcr = {}

NextCompletion ==
    \/ Classify
    \/ \E name \in EventVariants : TryFrom(name)
    \/ Unwrap
    \/ \E b \in BOOLEAN : SetCycleBit(b)
    \/ ReadFields

SpecCompletion == InitCompletion /\ [][NextCompletion]_vars

(***************************************************************************)
(* The accessors of DeviceNotification as functions of the storage: the    *)
(* value held starts with any contents of words 0 and 1, and is read,      *)
(* marked with a cycle bit and turned into its raw record.                 *)
(***************************************************************************)
NotificationBitSamples ==
    {<<0, 4>>, <<0, 7>>, <<0, 8>>, <<0, 15>>, <<0, 16>>, <<0, 31>>,
     <<1, 0>>, <<1, 31>>}

InitNotification ==
    /\ raw = None
    /\ res = NoRes
    /\ trb \in {Trb("DeviceNotification", MkRaw(Type.DeviceNotification, bits)) :
                  bits \in BitSets(NotificationBitSamples, MaxExtraBits)}
    /\ obs = NoObs
    /\ panicked = FALSE
    /\ crcr = {}

NextNotification ==
    \/ ReadFields
    \/ \E b \in BOOLEAN : SetCycleBit(b)
    \/ IntoRaw

SpecNotification == InitNotification /\ [][NextNotification]_vars

(***************************************************************************)
(* registers::operational::CommandRingControlRegister, a u64 read from the *)
(* controller: its bits are whatever the controller holds.                 *)
(***************************************************************************)
\* u64::trailing_zeros
trailing_zeros(p) ==
    IF p = {} THEN 64 ELSE CHOOSE b \in p : \A c \in p : b <= c

\* bit_field::BitField::set_bits on a u64, the value a u64 as well
set_bits64(w, lo, hi, v) ==
    (w \ (lo..hi)) \cup {lo + i : i \in {j \in v : j <= hi - lo}}

set_ring_cycle_state(r, s) == set_bit(r, 0, s)

set_command_stop(r, s) == set_bit(r, 1, s)

set_command_abort(r, s) == set_bit(r, 2, s)

command_ring_running(r) == get_bit(r, 3)

\* assert!(p.trailing_zeros() >= 6) fails
set_command_ring_pointer_panics(p) == ~(trailing_zeros(p) >= 6)

\* set_command_ring_pointer that stores the pointer without shifting it
set_command_ring_pointer_unshifted(r, p) == set_bits64(r, 6, 63, p)

set_command_ring_pointer(r, p) ==
    LET q == shr64(p, 6)
    IN  set_bits64(r, 6, 63, q)

RegisterBitSamples == {3, 5, 63}

RingPtrBitSamples == {0, 5, 6, 7, 63}

RingPointers == BitSets(RingPtrBitSamples, MaxPtrBits)

SetRingCycleState(s) ==
    /\ ~panicked
    /\ crcr' = set_ring_cycle_state(crcr, s)
    /\ UNCHANGED <<raw, res, trb, obs, panicked>>

SetCommandStop(s) ==
    /\ ~panicked
    /\ crcr' = set_command_stop(crcr, s)
    /\ UNCHANGED <<raw, res, trb, obs, panicked>>

SetCommandAbort(s) ==
    /\ ~panicked
    /\ crcr' = set_command_abort(crcr, s)
    /\ UNCHANGED <<raw, res, trb, obs, panicked>>

SetCommandRingPointer(p) ==
    /\ ~panicked
    /\ IF set_command_ring_pointer_panics(p)
       THEN /\ panicked' = TRUE
            /\ UNCHANGED <<raw, res, trb, obs, crcr>>
       ELSE /\ crcr' = set_command_ring_pointer(crcr, p)
            /\ UNCHANGED <<raw, res, trb, obs, panicked>>

InitRegister ==
    /\ raw = None
    /\ res = NoRes
    /\ trb = NoTrb
    /\ obs = NoObs
    /\ panicked = FALSE
    /\ crcr \in SUBSET RegisterBitSamples

NextRegister ==
    \/ \E s \in BOOLEAN : SetRingCycleState(s)
    \/ \E s \in BOOLEAN : SetCommandStop(s)
    \/ \E s \in BOOLEAN : SetCommandAbort(s)
    \/ \E p \in RingPointers : SetCommandRingPointer(p)

SpecRegister == InitRegister /\ [][NextRegister]_vars

(***************************************************************************)
(* Allowed::try_from with its try_from! lines in another order.            *)
(***************************************************************************)
Swap(order, i, j) ==
    [k \in 1..Len(order) |->
        IF k = i THEN order[j] ELSE IF k = j THEN order[i] ELSE order[k]]

RECURSIVE SwapOrders(_)
SwapOrders(n) ==
    IF n = 0 THEN {EventOrder}
    ELSE LET s == SwapOrders(n - 1)
         IN  s \cup {Swap(o, i, j) : o \in s,
                                     i \in 1..Len(EventOrder),
                                     j \in 1..Len(EventOrder)}

Orders == SwapOrders(MaxSwaps)

OrderRecords ==
    {MkRaw(ty, bits) : ty \in TypeSamples, bits \in BitSets(BitSamples, 1)}

ClassifyInOrder(order) ==
    /\ ~panicked
    /\ raw.some
    /\ res' = Result("Reordered", try_from_in_order(order, 1, raw.words))
    /\ obs' = NoObs
    /\ UNCHANGED <<raw, trb, panicked, crcr>>

InitOrder ==
    /\ raw \in {Some(r) : r \in OrderRecords}
    /\ res = NoRes
    /\ trb = NoTrb
    /\ obs = NoObs
    /\ panicked = FALSE
    /\ crcr = {}

NextOrder ==
    \/ Classify
    \/ \E order \in Orders : ClassifyInOrder(order)

SpecOrder == InitOrder /\ [][NextOrder]_vars

(***************************************************************************)
(* Auxiliary definitions of the properties.                                *)
(***************************************************************************)
\* the type tags of the event TRBs and of Link, as numbers
TagOf ==
    [TransferEvent |-> 32, CommandCompletion |-> 33, PortStatusChange |-> 34,
     BandwidthRequest |-> 35, Doorbell |-> 36, HostController |-> 37,
     DeviceNotification |-> 38, MfindexWrap |-> 39, Link |-> 6]

\* bits 10-15 of word 3 hold the number ty
HasTag(r, ty) == r[3] \cap (10..15) = {10 + j : j \in FromNat(ty, 6)}

\* every reserved range declared for the variant is zero in r
ReservedZero(name, r) ==
    \A k \in 1..Len(ReservedRanges[name]) :
        LET g == ReservedRanges[name][k]
        IN  r[g[1]] \cap (g[2]..g[3]) = {}

WellFormed(name, r) == HasTag(r, TagOf[name]) /\ ReservedZero(name, r)

\* r with one bit of one word set / cleared
WithBit(r, i, b) == [r EXCEPT ![i] = @ \cup {b}]

WithoutBit(r, i, b) == [r EXCEPT ![i] = @ \ {b}]

\* what every accessor but cycle_bit returns
FieldsButCycle(t) ==
    LET f == Fields(t)
    IN  [n \in (DOMAIN f) \ {"cycle_bit"} |-> f[n]]

(***************************************************************************)
(* C1.  Classification: Allowed::try_from(r) is Ok(Allowed::V(v)) with     *)
(* v.into_raw() = r exactly when bits 10-15 of word 3 are the tag of the   *)
(* event variant V and every reserved range of V is zero in r; in every    *)
(* other case it is Err(r), the payload being the input bit for bit.       *)
(***************************************************************************)
C1_Classification ==
    res.by = "Allowed" =>
        /\ raw.some
        /\ \A name \in EventVariants :
              WellFormed(name, raw.words) =>
                  /\ res.kind = "Ok"
                  /\ res.variant = name
                  /\ into_raw(Trb(res.variant, res.words)) = raw.words
        /\ (\A name \in EventVariants : ~WellFormed(name, raw.words)) =>
              /\ res.kind = "Err"
              /\ res.words = raw.words

\* a record with a field bit set has been classified as the variant whose
\* validator is tried last
C1_Witness ==
    /\ res.by = "Allowed"
    /\ res.kind = "Ok"
    /\ res.variant = "MfindexWrap"
    /\ 24 \in raw.words[3]

(***************************************************************************)
(* C2.  Tag disjointness: no record is accepted by the validators of two   *)
(* distinct event variants, and the record of a value of variant A (as     *)
(* A::new() is) is rejected by the validator of every other variant B.     *)
(***************************************************************************)
C2_TagDisjointness ==
    res.by \in EventVariants =>
        /\ res.kind = "Ok" =>
              \A other \in EventVariants \ {res.by} :
                  try_from(other, raw.words).kind = "Err"
        /\ ( /\ trb.variant \in EventVariants
             /\ trb.variant # res.by
             /\ raw.words = into_raw(trb) ) => res.kind = "Err"

\* HostController::new() has been handed to DeviceNotification::try_from
C2_Witness ==
    /\ res.by = "DeviceNotification"
    /\ res.kind = "Err"
    /\ trb = new("HostController")
    /\ raw = Some(into_raw(trb))

(***************************************************************************)
(* C3.  Reserved-bit rejection: when r is accepted by the validator of V   *)
(* and r' is r with one bit of a reserved range of V set, V::try_from(r')  *)
(* and Allowed::try_from(r') are both Err(r').                             *)
(***************************************************************************)
C3_ReservedBitRejection ==
    \A name \in EventVariants :
        res.by \in {name, "Allowed"} =>
            \A k \in 1..Len(ReservedRanges[name]) :
                LET g == ReservedRanges[name][k]
                IN  \A b \in g[2]..g[3] :
                        ( /\ b \in raw.words[g[1]]
                          /\ WellFormed(name, WithoutBit(raw.words, g[1], b)) ) =>
                            /\ res.kind = "Err"
                            /\ res.words = raw.words

\* a Transfer Event with a slot id and bit 21 of word 3 (reserved) set has
\* been classified
C3_Witness ==
    /\ res.by = "Allowed"
    /\ res.kind = "Err"
    /\ raw.some
    /\ HasTag(raw.words, 32)
    /\ raw.words[3] \ (10..15) = {21, 24}
    /\ WellFormed("TransferEvent", WithoutBit(raw.words, 3, 21))

(***************************************************************************)
(* C4.  Round trip: the raw words of a value v of an event variant V       *)
(* (V::new() followed by any set_cycle_bit calls) classify as              *)
(* Ok(Allowed::V(w)) with w equal to v, every accessor of w returning what *)
(* it returns on v.                                                        *)
(***************************************************************************)
C4_RoundTrip ==
    ( /\ trb.variant \in EventVariants
      /\ raw = Some(into_raw(trb))
      /\ res.by = "Allowed" ) =>
        /\ res.kind = "Ok"
        /\ res.variant = trb.variant
        /\ res.words = trb.words
        /\ Fields(Trb(res.variant, res.words)) = Fields(trb)

\* CommandCompletion::new() with the cycle bit set has been serialised and
\* classified
C4_Witness ==
    /\ trb = set_cycle_bit(new("CommandCompletion"), TRUE)
    /\ cycle_bit(trb)
    /\ raw = Some(into_raw(trb))
    /\ res.by = "Allowed"
    /\ res.kind = "Ok"

(***************************************************************************)
(* C5.  Cycle-bit independence: a record and the record that differs from  *)
(* it in bit 0 of word 3 only classify alike (both Ok of the same variant  *)
(* with the same values of every accessor but cycle_bit, or both Err), and *)
(* set_cycle_bit on a variant or on an Allowed changes bit 0 of word 3     *)
(* only: not the variant held, the tag or another decoded field.           *)
(***************************************************************************)
FlipCycle(r) == [r EXCEPT ![3] = IF 0 \in @ THEN @ \ {0} ELSE @ \cup {0}]

C5_ClassifiesAlike ==
    res.by = "Allowed" =>
        LET other == Allowed_try_from(FlipCycle(raw.words))
        IN  /\ other.kind = res.kind
            /\ other.variant = res.variant
            /\ res.kind = "Ok" =>
                  FieldsButCycle(Trb(other.variant, other.words)) =
                      FieldsButCycle(Trb(res.variant, res.words))

C5_SetterFrame ==
    \A b \in BOOLEAN :
        (SetCycleBit(b) \/ AllowedSetCycleBit(b)) =>
            /\ trb'.variant = trb.variant
            /\ \A i \in 0..2 : trb'.words[i] = trb.words[i]
            /\ trb'.words[3] \ {0} = trb.words[3] \ {0}
            /\ FieldsButCycle(trb') = FieldsButCycle(trb)

C5_CycleBitIndependence == [](C5_ClassifiesAlike) /\ [][C5_SetterFrame]_vars

\* the cycle bit of a classified Transfer Event with a slot id has been set
C5_Witness ==
    /\ trb.variant = "TransferEvent"
    /\ Allowed_cycle_bit(trb)
    /\ TransferEvent_slot_id(trb) = 1
    /\ ~raw.some

(***************************************************************************)
(* C6.  Construction: V::new() and V::default() yield the raw record       *)
(* [0, 0, 0, tag * 2^10], the tag being 32..39 for TransferEvent ..        *)
(* MfindexWrap and 6 for Link; every other bit is zero.                    *)
(***************************************************************************)
C6_Constructed ==
    \A name \in Variants :
        (trb'.variant = name /\ (New(name) \/ Default(name))) =>
            /\ into_raw(trb') =
                  [i \in 0..3 |->
                      IF i = 3 THEN {10 + j : j \in FromNat(TagOf[name], 6)} ELSE {}]

C6_Construction == [][C6_Constructed]_vars

\* a Link TRB has just been constructed: word 3 is 6 * 2^10
C6_Witness ==
    /\ trb.variant = "Link"
    /\ trb.words = [i \in 0..3 |-> IF i = 3 THEN {11, 12} ELSE {}]
    /\ ~raw.some

(***************************************************************************)
(* C7.  Completion code: with the byte b in bits 24-31 of word 2,          *)
(* completion_code() is Ok(c), c of numeric value b, when b is in 0..29 or *)
(* 31..36, and Err(b) otherwise; 1 gives Ok(Success), 30 Err(30), 255      *)
(* Err(255).                                                               *)
(***************************************************************************)
C7_CompletionCode ==
    obs.of.variant \in EventVariants =>
        LET b  == ToNat({x - 24 : x \in {y \in obs.of.words[2] : y >= 24}})
            cc == obs.fields.completion_code
        IN  /\ b \in (0..29) \cup (31..36) =>
                  /\ cc.kind = "Ok"
                  /\ CompletionCode[cc.code] = b
            /\ b \notin (0..29) \cup (31..36) => cc = [kind |-> "Err", byte |-> b]
            /\ b = 1 => cc = [kind |-> "Ok", code |-> "Success"]

\* the byte 30 has been read from a Port Status Change Event
C7_Witness ==
    /\ obs.of.variant = "PortStatusChange"
    /\ obs.of.words[2] = {25, 26, 27, 28}
    /\ obs.fields.completion_code = [kind |-> "Err", byte |-> 30]

(***************************************************************************)
(* C8.  Transfer Event fields: trb_pointer() is word 1 * 2^32 + word 0,    *)
(* trb_transfer_length() bits 0-23 of word 2, event_data() bit 2 of word   *)
(* 3, endpoint_id() bits 16-20 and slot_id() bits 24-31 of word 3; the     *)
(* record of pointer 0x1000, length 64, endpoint 3, slot 1 and completion  *)
(* byte 1 classifies as a Transfer Event and reads back these values.      *)
(***************************************************************************)
C8_TransferEventFields ==
    /\ obs.of.variant = "TransferEvent" =>
          LET w == obs.of.words
              f == obs.fields
          IN  /\ \A i \in 0..63 :
                    i \in f.trb_pointer <=>
                        IF i < 32 THEN i \in w[0] ELSE (i - 32) \in w[1]
              /\ f.trb_transfer_length = ToNat({x \in w[2] : x <= 23})
              /\ f.event_data = (2 \in w[3])
              /\ f.endpoint_id = ToNat({x - 16 : x \in {y \in w[3] : y >= 16 /\ y <= 20}})
              /\ f.slot_id = ToNat({x - 24 : x \in {y \in w[3] : y >= 24}})
              /\ w = ScenarioRecord =>
                    /\ f.trb_pointer = {12}
                    /\ f.trb_transfer_length = 64
                    /\ f.endpoint_id = 3
                    /\ f.slot_id = 1
                    /\ f.completion_code = [kind |-> "Ok", code |-> "Success"]
    /\ (res.by = "Allowed" /\ raw = Some(ScenarioRecord)) =>
          res.kind = "Ok" /\ res.variant = "TransferEvent"

\* the fields of the classified record of the scenario have been read
C8_Witness ==
    /\ raw = Some(ScenarioRecord)
    /\ res.by = "Allowed"
    /\ obs.of = [variant |-> "TransferEvent", words |-> ScenarioRecord]

(***************************************************************************)
(* C9.  Link alignment: set_ring_segment_pointer(p) panics and stores      *)
(* nothing when p is not a multiple of 16; otherwise it completes,         *)
(* ring_segment_pointer() is p (word 0 the low, word 1 the high 32 bits)   *)
(* and words 2 and 3 are unchanged.                                        *)
(***************************************************************************)
C9_PointerSet ==
    trb.variant = "Link" =>
        \A p \in Pointers :
            SetRingSegmentPointer(p) =>
                IF p \cap (0..3) # {}
                THEN /\ panicked'
                     /\ trb' = trb
                ELSE /\ ~panicked'
                     /\ Link_ring_segment_pointer(trb') = p
                     /\ trb'.words[0] = {b \in p : b < 32}
                     /\ trb'.words[1] = {b - 32 : b \in {x \in p : x >= 32}}
                     /\ trb'.words[2] = trb.words[2]
                     /\ trb'.words[3] = trb.words[3]
                     /\ trb'.variant = "Link"

C9_LinkAlignment == [][C9_PointerSet]_vars

\* a pointer with bits 4 and 63 was stored in a Link TRB with an interrupter
\* target, and a later call with a misaligned pointer panicked
C9_Witness ==
    /\ panicked
    /\ trb.variant = "Link"
    /\ trb.words[0] = {4}
    /\ trb.words[1] = {31}
    /\ Link_interrupter_target(trb) = 1023

(***************************************************************************)
(* C10.  Device Notification: a record with the Device Notification tag    *)
(* whose bits 0-3 of word 0, bits 0-23 of word 2 and bits 1-9 and 16-31 of *)
(* word 3 are zero classifies as DeviceNotification whatever its           *)
(* notification type (word 0 bits 4-7) and notification data (word 0 bits  *)
(* 8-31 and word 1) are.                                                   *)
(***************************************************************************)
C10_NotificationDataAccepted ==
    ( /\ res.by \in {"Allowed", "DeviceNotification"}
      /\ HasTag(raw.words, 38)
      /\ raw.words[0] \cap (0..3) = {}
      /\ raw.words[2] \cap (0..23) = {}
      /\ raw.words[3] \cap ((1..9) \cup (16..31)) = {} ) =>
        /\ res.kind = "Ok"
        /\ res.variant = "DeviceNotification"
        /\ res.words = raw.words
        /\ DeviceNotification_notification_type(Trb(res.variant, res.words)) =
              ToNat({b - 4 : b \in {x \in raw.words[0] : x >= 4 /\ x <= 7}})
        /\ DeviceNotification_device_notification_data(Trb(res.variant, res.words)) =
              {b - 8 : b \in {x \in raw.words[0] : x >= 8}} \cup
              {b + 24 : b \in raw.words[1]}

C12_OrderImmaterial ==
    res.by = "Reordered" =>
        res = Result("Reordered", Allowed_try_from(raw.words))

\* a Device Notification record with the cycle bit was classified by the
\* validators tried in one of several orders
C12_Witness ==
    /\ res.by = "Reordered"
    /\ res.kind = "Ok"
    /\ res.variant = "DeviceNotification"
    /\ 0 \in res.words[3]
    /\ Cardinality(Orders) > 1

(***************************************************************************)
(* C13.  Tag invariant: every value of a variant V got from new, default   *)
(* or a successful try_from, then changed by any setters (set_cycle_bit on *)
(* the variant or on Allowed, every setter of Link), has the Type value of *)
(* V in bits 10-15 of word 3.                                              *)
(***************************************************************************)
C13_TagInvariant ==
    trb.variant # "None" =>
        /\ trb.variant \in Variants
        /\ HasTag(trb.words, TagOf[trb.variant])
        /\ ToNat(get_bits(trb.words[3], 10, 15)) = Type[trb.variant]

\* a Link TRB on which every setter has written ones
C13_Witness ==
    /\ trb.variant = "Link"
    /\ Link_chain_bit(trb)
    /\ Link_toggle_cycle(trb)
    /\ Link_interrupt_on_completion(trb)
    /\ cycle_bit(trb)
    /\ Link_interrupter_target(trb) = 1023
    /\ Link_ring_segment_pointer(trb) = {4, 63}

(***************************************************************************)
(* C14.  Link setters write their own bits only: set_interrupter_target(t) *)
(* with t < 1024 changes bits 22-31 of word 2 and nothing else,            *)
(* set_toggle_cycle bit 1 of word 3, set_chain_bit bit 4 of word 3,        *)
(* set_interrupt_on_completion bit 5 of word 3 and set_cycle_bit bit 0 of  *)
(* word 3; after a call the getter of the field written returns the value  *)
(* written and every other getter returns what it returned before, so that *)
(* after any sequence of calls each getter returns the value last written  *)
(* to its field.                                                           *)
(***************************************************************************)
LinkGetters(t) ==
    [ring_segment_pointer |-> Link_ring_segment_pointer(t),
     interrupter_target |-> Link_interrupter_target(t),
     toggle_cycle |-> Link_toggle_cycle(t),
     chain_bit |-> Link_chain_bit(t),
     interrupt_on_completion |-> Link_interrupt_on_completion(t),
     cycle_bit |-> cycle_bit(t)]

\* the words of u are the words of t but for the bits lo..hi of word i
OnlyBits(t, u, i, lo, hi) ==
    /\ u.variant = t.variant
    /\ \A k \in 0..3 : k # i => u.words[k] = t.words[k]
    /\ u.words[i] \ (lo..hi) = t.words[i] \ (lo..hi)

C14_Frame ==
    (trb.variant = "Link" /\ trb'.variant = "Link") =>
        /\ \A v \in InterrupterTargets :
              SetInterrupterTarget(v) =>
                  /\ v < 1024
                  /\ OnlyBits(trb, trb', 2, 22, 31)
                  /\ LinkGetters(trb') =
                        [LinkGetters(trb) EXCEPT !.interrupter_target = v]
        /\ \A c \in BOOLEAN :
              SetToggleCycle(c) =>
                  /\ OnlyBits(trb, trb', 3, 1, 1)
                  /\ LinkGetters(trb') =
                        [LinkGetters(trb) EXCEPT !.toggle_cycle = c]
        /\ \A b \in BOOLEAN :
              SetChainBit(b) =>
                  /\ OnlyBits(trb, trb', 3, 4, 4)
                  /\ LinkGetters(trb') =
                        [LinkGetters(trb) EXCEPT !.chain_bit = b]
        /\ \A ioc \in BOOLEAN :
              SetInterruptOnCompletion(ioc) =>
                  /\ OnlyBits(trb, trb', 3, 5, 5)
                  /\ LinkGetters(trb') =
                        [LinkGetters(trb) EXCEPT !.interrupt_on_completion = ioc]
        /\ \A b \in BOOLEAN :
              SetCycleBit(b) =>
                  /\ OnlyBits(trb, trb', 3, 0, 0)
                  /\ LinkGetters(trb') =
                        [LinkGetters(trb) EXCEPT !.cycle_bit = b]

C14_LinkSetterFrame == [][C14_Frame]_vars

\* a Link TRB with the interrupter target 1023, the chain bit, the
\* interrupt-on-completion flag and a ring segment pointer written, the
\* toggle cycle flag and the cycle bit clear
C14_Witness ==
    /\ trb.variant = "Link"
    /\ LinkGetters(trb) =
          [ring_segment_pointer |-> {4, 63},
           interrupter_target |-> 1023,
           toggle_cycle |-> FALSE,
           chain_bit |-> TRUE,
           interrupt_on_completion |-> TRUE,
           cycle_bit |-> FALSE]
    /\ trb.words[2] = 22..31

(***************************************************************************)
(* C15.  Command ring pointer alignment: set_command_ring_pointer(p)       *)
(* panics for every p that is not a multiple of 64 and leaves the register *)
(* as it was; for every p that is one, 0 included, it does not panic, bits *)
(* 6-63 of the register become bits 6-63 of p and bits 0-5 of the register *)
(* are unchanged.                                                          *)
(***************************************************************************)
C15_PointerSet ==
    \A p \in RingPointers :
        SetCommandRingPointer(p) =>
            IF p \cap (0..5) # {}
            THEN /\ panicked'
                 /\ crcr' = crcr
            ELSE /\ ~panicked'
                 /\ crcr' \cap (6..63) = p \cap (6..63)
                 /\ crcr' \cap (0..5) = crcr \cap (0..5)
                 /\ command_ring_running(crcr') = command_ring_running(crcr)

C15_CommandRingAlignment == [][C15_PointerSet]_vars

\* the pointer with bits 6 and 63 was stored in a register read with the
\* running bit and bit 5 set, the cycle state was set, and a later call
\* with a misaligned pointer panicked
C15_Witness ==
    /\ panicked
    /\ crcr = {0, 3, 5, 6, 63}

(***************************************************************************)
(* C16.  Raw conversion is lossless and total: into_raw(), the conversion  *)
(* <[u32; 4]>::from and as_ref() of a value of any variant, and into_raw() *)
(* and as_ref() of an Allowed, show the same four words, the words the     *)
(* value holds, and none of them fails; when Allowed::try_from(r) is       *)
(* Ok(a), a.into_raw() and a.as_ref() are r.                               *)
(***************************************************************************)
C16_Classified ==
    (res.by = "Allowed" /\ res.kind = "Ok") =>
        /\ Allowed_into_raw(Trb(res.variant, res.words)) = raw.words
        /\ Allowed_as_ref(Trb(res.variant, res.words)) = raw.words

C16_Exposed ==
    (trb.variant # "None" /\ raw'.some /\ trb' = trb) =>
        /\ (IntoRaw \/ FromTrb \/ AsRef) =>
              /\ raw'.words = trb.words
              /\ into_raw(trb) = from(trb)
              /\ into_raw(trb) = as_ref(trb)
              /\ DOMAIN raw'.words = 0..3
              /\ ~panicked'
        /\ (AllowedIntoRaw \/ AllowedAsRef) =>
              /\ raw'.words = trb.words
              /\ Allowed_into_raw(trb) = into_raw(trb)
              /\ Allowed_as_ref(trb) = as_ref(trb)
              /\ ~panicked'

C16_RawConversion == [](C16_Classified) /\ [][C16_Exposed]_vars

\* a Transfer Event with a slot id and the cycle bit set was classified,
\* taken out of the result and turned into its words again
C16_Witness ==
    /\ trb.variant = "TransferEvent"
    /\ trb.words[3] \ (10..15) = {0, 24}
    /\ raw = Some(trb.words)
    /\ res = NoRes

(***************************************************************************)
(* C17.  Device Notification fields are always zero: every value of        *)
(* DeviceNotification got from new, default or a successful try_from, then *)
(* changed by set_cycle_bit, has words 0 and 1 and bits 16-31 of word 3    *)
(* zero, so that notification_type(), device_notification_data() and       *)
(* slot_id() return 0 on it.                                               *)
(***************************************************************************)
C17_NotificationFieldsZero ==
    /\ trb.variant = "DeviceNotification" =>
          /\ trb.words[0] = {}
          /\ trb.words[1] = {}
          /\ trb.words[3] \cap (16..31) = {}
          /\ DeviceNotification_notification_type(trb) = 0
          /\ DeviceNotification_device_notification_data(trb) = {}
          /\ DeviceNotification_slot_id(trb) = 0
    /\ obs.of.variant = "DeviceNotification" =>
          /\ obs.fields.notification_type = 0
          /\ obs.fields.device_notification_data = {}
          /\ obs.fields.slot_id = 0

\* the fields of a classified Device Notification with a completion code
\* and the cycle bit have been read
C17_Witness ==
    /\ trb.variant = "DeviceNotification"
    /\ trb.words[2] = {24}
    /\ cycle_bit(trb)
    /\ obs.of = trb
    /\ res.kind = "Ok"

(***************************************************************************)
(* C18.  Command TRB pointer alignment: command_trb_pointer() of every     *)
(* value of CommandCompletion got from new, default or a successful        *)
(* try_from, then changed by set_cycle_bit, is a multiple of 16, and a     *)
(* record with the Command Completion tag and one of bits 0-3 of word 0    *)
(* set is rejected with Err carrying the record unchanged.                 *)
(***************************************************************************)
C18_CommandPointerAligned ==
    /\ trb.variant = "CommandCompletion" =>
          CommandCompletion_command_trb_pointer(trb) \cap (0..3) = {}
    /\ obs.of.variant = "CommandCompletion" =>
          obs.fields.command_trb_pointer \cap (0..3) = {}
    /\ ( /\ res.by \in {"Allowed", "CommandCompletion"}
         /\ HasTag(raw.words, 33)
         /\ raw.words[0] \cap (0..3) # {} ) =>
            /\ res.kind = "Err"
            /\ res.words = raw.words

\* the pointer of a classified Command Completion, with bits 4 and 63 set,
\* has been read
C18_Witness ==
    /\ trb.variant = "CommandCompletion"
    /\ obs.of = trb
    /\ obs.fields.command_trb_pointer = {4, 63}
    /\ res.kind = "Ok"

====
